---- MODULE Spec2Model ----
(***************************************************************************)
(* Model of device0/imaging.py: the VNA controller (Agilent E8363B) and    *)
(* the Switches controller (Agilent 87050A), each driving one VISA session.*)
(*                                                                         *)
(* Every public method is one action.  A method's session traffic is the   *)
(* list of operations it performs in program order (its "plan"); a run of  *)
(* the method executes a prefix of the plan, ending at the first operation *)
(* the session fails, which raises out of the method.  The events of the   *)
(* most recent call are kept in a trace (vtrace / swtrace), which plays    *)
(* the role of a recording fake session.                                   *)
(***************************************************************************)
EXTENDS Integers, Sequences, FiniteSets, TLC

VARIABLES
    input_dict,     \* gui.parameter.input_dict: key -> value (a dict: a function on its keys)
    hw,             \* the analyzer's advertised MIN/MAX replies (text)
    vpc,            \* VNA object: "new" | "ready" | "failed" | "dead"
    vsess,          \* VNA session: "open" | "closed"
    name,           \* VNA.name
    sp_to_measure,  \* VNA.sp_to_measure (a list)
    p_ranges,       \* VNA.p_ranges (a dict, as a function on its keys)
    inits,          \* number of VNA.initialize() calls made so far
    vcall,          \* the most recent VNA call
    vtrace,         \* session events of the most recent VNA call
    vexc,           \* what that call raised ("none" when it returned)
    vret,           \* what that call returned
    swpc,           \* Switches object: "ready" | "dead"
    swsess,         \* Switches session: "open" | "closed"
    swcall,         \* the most recent Switches call
    swtrace,        \* session and sleep events of the most recent Switches call
    swprev,         \* events of the Switches call before that one
    swexc           \* what the most recent Switches call raised

vnaVars == <<input_dict, hw, vpc, vsess, name, sp_to_measure, p_ranges, inits,
             vcall, vtrace, vexc, vret>>
swVars == <<swpc, swsess, swcall, swtrace, swprev, swexc>>
vars == <<input_dict, hw, vpc, vsess, name, sp_to_measure, p_ranges, inits,
          vcall, vtrace, vexc, vret,
          swpc, swsess, swcall, swtrace, swprev, swexc>>

-----------------------------------------------------------------------------
(* Bounds of the model *)

\* initialize() appends to sp_to_measure on every call: cap the number of calls
MaxInits == 2
\* ports tried beyond each end of [PORT_MIN, PORT_MAX]
PortSlack == 2

-----------------------------------------------------------------------------
(* Text *)

Digit(d) == <<"0", "1", "2", "3", "4", "5", "6", "7", "8", "9">>[d + 1]

\* Python str(n) of an int
RECURSIVE StrNat(_)
StrNat(n) == IF n < 10 THEN Digit(n) ELSE StrNat(n \div 10) \o Digit(n % 10)

str(n) == IF n < 0 THEN "-" \o StrNat(0 - n) ELSE StrNat(n)

DigitVal(c) == CHOOSE d \in 0..9 : Digit(d) = c

\* Python int(text) of a line of decimal digits (text is a tuple of characters)
RECURSIVE int(_)
int(text) ==
    IF Len(text) = 1 THEN DigitVal(text[1])
    ELSE 10 * int(SubSeq(text, 1, Len(text) - 1)) + DigitVal(text[Len(text)])

-----------------------------------------------------------------------------
(* The VISA session (pyvisa Resource) as the controllers use it *)

W(cmd) == [op |-> "write", arg |-> cmd]
Q(cmd) == [op |-> "query", arg |-> cmd]
SetAttr(attr) == [op |-> "set", arg |-> attr]
CloseOp == [op |-> "close", arg |-> ""]
SleepOp(ms) == [op |-> "sleep", arg |-> str(ms)]

\* operations that can raise visa.errors.VisaIOError on an open session
MayFail(op) == op \in {"write", "query", "close"}

\* operations that always raise visa.errors.InvalidSession on a closed session
MustFail(sess, op) == sess = "closed" /\ op \in {"write", "query"}

\* k = 0: every operation of the plan succeeds; k > 0: operation k raises.
\* On a closed session a write or query cannot succeed; a close may or may not.
FailPoints(plan, sess) ==
    {k \in 0..Len(plan) :
        /\ k = 0 \/ MayFail(plan[k].op)
        /\ \A i \in 1..(IF k = 0 THEN Len(plan) ELSE k - 1) :
              ~MustFail(sess, plan[i].op)}

Raised(sess, k) ==
    IF k = 0 THEN "none"
    ELSE IF sess = "closed" THEN "InvalidSession" ELSE "VisaIOError"

s_params == <<"S11", "S21", "S12", "S22">>

SelectCmd(s) == "CALCULATE1:PARAMETER:SELECT '" \o "parameter_" \o s \o "'"

RangeNames == <<"num_points", "ifbw", "freq_start", "freq_stop", "power">>

RangeQuery(n) ==
    CASE n = "num_points" -> "SENSE1:SWEEP:POINTS? "
      [] n = "ifbw"       -> "SENSE1:BANDWIDTH? "
      [] n = "freq_start" -> "SENSE1:FREQUENCY:START? "
      [] n = "freq_stop"  -> "SENSE1:FREQUENCY:STOP? "
      [] n = "power"      -> "SOURCE1:POWER1? "

\* the measurement the analyzer has selected when operation i of the plan runs
Selected(plan, i) ==
    LET js == {j \in 1..(i - 1) :
                  \E x \in 1..Len(s_params) : plan[j] = W(SelectCmd(s_params[x]))}
    IN  IF js = {} THEN "none"
        ELSE LET j == CHOOSE m \in js : \A o \in js : o <= m
             IN  s_params[CHOOSE x \in 1..Len(s_params) :
                                 plan[j] = W(SelectCmd(s_params[x]))]

\* the line the analyzer answers to query i of the plan
Reply(plan, i, h) ==
    LET cmd == plan[i].arg IN
    IF plan[i].op # "query" THEN <<>>
    ELSE IF cmd = "*IDN?" THEN <<"Agilent Technologies", "E8363B">>
    ELSE IF cmd = "*OPC?" THEN <<"1">>
    ELSE IF cmd = "CALCULATE:DATA? SDATA" THEN <<"SDATA", Selected(plan, i)>>
    ELSE LET x == CHOOSE y \in 1..Len(RangeNames) :
                      cmd \in {RangeQuery(RangeNames[y]) \o "MIN",
                               RangeQuery(RangeNames[y]) \o "MAX"}
         IN  IF cmd = RangeQuery(RangeNames[x]) \o "MIN"
             THEN h[RangeNames[x]].min ELSE h[RangeNames[x]].max

\* the events a run of the plan leaves on the session when operation k raises
Executed(plan, k, h) ==
    [i \in 1..(IF k = 0 THEN Len(plan) ELSE k) |->
        [op |-> plan[i].op, arg |-> plan[i].arg, ok |-> (i # k),
         reply |-> IF i # k THEN Reply(plan, i, h) ELSE <<>>]]

SessAfter(sess, trace) ==
    IF \E i \in 1..Len(trace) : trace[i].op = "close" /\ trace[i].ok
    THEN "closed" ELSE sess

-----------------------------------------------------------------------------
(* class VNA *)

\* faulty variant: the sweep is put on hold before the preset, which undoes it
RangePlan_holdFirst ==
    <<SetAttr("read_termination"), SetAttr("write_termination"),
      W("SENSE1:SWEEP:MODE HOLD"),
      W("SYSTEM:FPRESET"),
      W("CALCULATE1:PARAMETER:DEFINE '" \o "parameter_S21" \o "', S21"),
      W("INITIATE:CONTINUOUS OFF"),
      W("TRIGGER:SOURCE MANUAL"),
      W("SENSE1:AVERAGE OFF"),
      W("SENSE1:SWEEP:TYPE LINEAR")>>
    \o [i \in 1..(2 * Len(RangeNames)) |->
          Q(RangeQuery(RangeNames[(i + 1) \div 2])
            \o (IF i % 2 = 1 THEN "MIN" ELSE "MAX"))]

\* session traffic of VNA._set_parameter_ranges, in program order
RangePlan ==
    <<SetAttr("read_termination"), SetAttr("write_termination"),
      W("SYSTEM:FPRESET"),
      W("CALCULATE1:PARAMETER:DEFINE '" \o "parameter_S21" \o "', S21"),
      W("INITIATE:CONTINUOUS OFF"),
      W("TRIGGER:SOURCE MANUAL"),
      W("SENSE1:SWEEP:MODE HOLD"),
      W("SENSE1:AVERAGE OFF"),
      W("SENSE1:SWEEP:TYPE LINEAR")>>
    \o [i \in 1..(2 * Len(RangeNames)) |->
          Q(RangeQuery(RangeNames[(i + 1) \div 2])
            \o (IF i % 2 = 1 THEN "MIN" ELSE "MAX"))]

\* faulty variant: the two queries of an entry are stored the other way round
RangesFrom_swapped(trace) ==
    LET first == Len(RangePlan) - 2 * Len(RangeNames)
        done  == {x \in 1..Len(RangeNames) :
                     /\ Len(trace) >= first + 2 * x
                     /\ trace[first + 2 * x].ok}
    IN  [n \in {RangeNames[x] : x \in done} |->
            LET x == CHOOSE y \in done : RangeNames[y] = n
            IN  <<int(trace[first + 2 * x].reply),
                  int(trace[first + 2 * x - 1].reply)>>]

\* p_ranges after a run of RangePlan: an entry is stored once both of its
\* queries have returned
RangesFrom(trace) ==
    LET first == Len(RangePlan) - 2 * Len(RangeNames)
        done  == {x \in 1..Len(RangeNames) :
                     /\ Len(trace) >= first + 2 * x
                     /\ trace[first + 2 * x].ok}
    IN  [n \in {RangeNames[x] : x \in done} |->
            LET x == CHOOSE y \in done : RangeNames[y] = n
            IN  <<int(trace[first + 2 * x - 1].reply),
                  int(trace[first + 2 * x].reply)>>]

\* session traffic of VNA.display_on(setting)
DisplayPlan(setting) ==
    IF setting THEN <<W("DISPLAY:VISIBLE ON")>> ELSE <<W("DISPLAY:VISIBLE OFF")>>

\* faulty variant: the preset is written after the tunable settings and resets them
InitializePlan_presetLast(d) ==
    <<SetAttr("read_termination"), SetAttr("write_termination"),
      Q("*IDN?")>>
    \o DisplayPlan(FALSE)
    \o <<W("CALCULATE1:PARAMETER:DEFINE 'parameter_S11', S11"),
         W("CALCULATE1:PARAMETER:DEFINE 'parameter_S12', S12"),
         W("CALCULATE1:PARAMETER:DEFINE 'parameter_S21', S21"),
         W("CALCULATE1:PARAMETER:DEFINE 'parameter_S22', S22"),
         W("INITIATE:CONTINUOUS OFF"),
         W("TRIGGER:SOURCE MANUAL"),
         W("SENSE1:SWEEP:MODE HOLD"),
         W("SENSE1:AVERAGE OFF"),
         W("SENSE1:SWEEP:TYPE LINEAR"),
         W("SENSE1:SWEEP:POINTS " \o str(d["num_points"])),
         W("SENSE1:BANDWIDTH " \o str(d["ifbw"])),
         W("SENSE1:FREQUENCY:START " \o str(d["freq_start"])),
         W("SENSE1:FREQUENCY:STOP " \o str(d["freq_stop"])),
         W("SOURCE1:POWER1 " \o str(d["power"]) \o "DBM"),
         W("SYSTEM:FPRESET"),
         SetAttr("timeout")>>

\* session traffic of VNA.initialize, in program order
InitializePlan(d) ==
    <<SetAttr("read_termination"), SetAttr("write_termination"),
      Q("*IDN?"),
      W("SYSTEM:FPRESET")>>
    \o DisplayPlan(FALSE)
    \o <<W("CALCULATE1:PARAMETER:DEFINE 'parameter_S11', S11"),
         W("CALCULATE1:PARAMETER:DEFINE 'parameter_S12', S12"),
         W("CALCULATE1:PARAMETER:DEFINE 'parameter_S21', S21"),
         W("CALCULATE1:PARAMETER:DEFINE 'parameter_S22', S22"),
         W("INITIATE:CONTINUOUS OFF"),
         W("TRIGGER:SOURCE MANUAL"),
         W("SENSE1:SWEEP:MODE HOLD"),
         W("SENSE1:AVERAGE OFF"),
         W("SENSE1:SWEEP:TYPE LINEAR"),
         W("SENSE1:SWEEP:POINTS " \o str(d["num_points"])),
         W("SENSE1:BANDWIDTH " \o str(d["ifbw"])),
         W("SENSE1:FREQUENCY:START " \o str(d["freq_start"])),
         W("SENSE1:FREQUENCY:STOP " \o str(d["freq_stop"])),
         W("SOURCE1:POWER1 " \o str(d["power"]) \o "DBM"),
         SetAttr("timeout")>>

\* the test of lines 94-95: the key is in input_dict and its value == 1
Measured(d, s) == s \in DOMAIN d /\ d[s] = 1

\* the loop of lines 93-96: what one initialize() appends to sp_to_measure
RECURSIVE Appended(_, _)
Appended(d, i) ==
    IF i > Len(s_params) THEN <<>>
    ELSE (IF Measured(d, s_params[i]) THEN <<s_params[i]>> ELSE <<>>)
         \o Appended(d, i + 1)

\* sp_to_measure after initialize() has run the loop
AfterInitialize(sp, d) == sp \o Appended(d, 1)

\* session traffic of VNA.fire, in program order
RECURSIVE Pairs(_)
Pairs(sp) ==
    IF sp = <<>> THEN <<>>
    ELSE <<W(SelectCmd(Head(sp))), Q("CALCULATE:DATA? SDATA")>> \o Pairs(Tail(sp))

\* faulty variant: the commented-out line 115, a *WAI write in place of the *OPC? query
FirePlan_wai(sp) == <<W("INIT:IMM"), W("*WAI")>> \o Pairs(sp)

FirePlan(sp) == <<W("INIT:IMM"), Q("*OPC?")>> \o Pairs(sp)

\* faulty variant: the dict has an entry for each of the four S-parameters
FireOutput_allKeys(sp, trace) ==
    [s \in {s_params[i] : i \in 1..Len(s_params)} |->
        IF \E i \in 1..Len(sp) : sp[i] = s
        THEN trace[2 + 2 * (CHOOSE i \in 1..Len(sp) : sp[i] = s)].reply
        ELSE <<>>]

\* the dict fire() returns: a later entry for the same key overwrites
FireOutput(sp, trace) ==
    [s \in {sp[i] : i \in 1..Len(sp)} |->
        LET last == CHOOSE i \in 1..Len(sp) :
                        sp[i] = s /\ \A j \in 1..Len(sp) : sp[j] = s => j <= i
        IN  trace[2 + 2 * last].reply]

\* faulty variant: the session is closed first, whatever becomes of the reset
TeardownPlan_closeFirst == <<CloseOp, W("*RST")>>

\* faulty variant: the session is closed without the reset
TeardownPlan_noReset == <<CloseOp>>

NoReturn == [has |-> FALSE, val |-> <<>>]
Returned(v) == [has |-> TRUE, val |-> v]

\* faulty variant: a failing operation ends the loop and the entries read so far are
\* returned
FireReturn_partial(sp, trace, k) ==
    LET n == IF k = 0 THEN Len(sp) ELSE IF k < 4 THEN 0 ELSE (k - 3) \div 2
    IN  Returned(FireOutput(SubSeq(sp, 1, n), trace))

\* what a fire() call hands back: the dict when no operation raised, nothing
\* when one did (the exception leaves fire at the failing statement)
FireReturn(sp, trace, k) ==
    IF k = 0 THEN Returned(FireOutput(sp, trace)) ELSE NoReturn

\* session traffic of VNA.close and of the try block of VNA.__del__
TeardownPlan == <<W("*RST"), CloseOp>>

\* VNA.__init__
VNA_init ==
    /\ vpc = "new"
    /\ \E k \in FailPoints(RangePlan, vsess) :
        LET trace == Executed(RangePlan, k, hw) IN
        /\ vtrace' = trace
        /\ vexc' = Raised(vsess, k)
        /\ vpc' = IF k = 0 THEN "ready" ELSE "failed"
        /\ p_ranges' = RangesFrom(trace)
        /\ vsess' = SessAfter(vsess, trace)
    /\ name' = <<>>
    /\ sp_to_measure' = <<>>
    /\ vcall' = [fn |-> "__init__", arg |-> FALSE]
    /\ vret' = NoReturn
    /\ UNCHANGED <<input_dict, hw, inits>>

\* VNA.initialize
VNA_initialize ==
    /\ vpc = "ready"
    /\ inits < MaxInits
    /\ LET plan == InitializePlan(input_dict) IN
       \E k \in FailPoints(plan, vsess) :
        LET trace == Executed(plan, k, hw) IN
        /\ vtrace' = trace
        /\ vexc' = Raised(vsess, k)
        /\ name' = IF Len(trace) >= 3 /\ trace[3].ok THEN trace[3].reply ELSE name
        /\ sp_to_measure' = IF k = 0 THEN AfterInitialize(sp_to_measure, input_dict)
                            ELSE sp_to_measure
        /\ inits' = IF k = 0 THEN inits + 1 ELSE inits
        /\ vsess' = SessAfter(vsess, trace)
    /\ vcall' = [fn |-> "initialize", arg |-> FALSE]
    /\ vret' = NoReturn
    /\ UNCHANGED <<input_dict, hw, vpc, p_ranges>>

\* VNA.display_on
VNA_display_on ==
    /\ vpc = "ready"
    /\ \E setting \in BOOLEAN :
       \E k \in FailPoints(DisplayPlan(setting), vsess) :
        LET trace == Executed(DisplayPlan(setting), k, hw) IN
        /\ vtrace' = trace
        /\ vexc' = Raised(vsess, k)
        /\ vsess' = SessAfter(vsess, trace)
        /\ vcall' = [fn |-> "display_on", arg |-> setting]
    /\ vret' = NoReturn
    /\ UNCHANGED <<input_dict, hw, vpc, name, sp_to_measure, p_ranges, inits>>

\* VNA.fire
VNA_fire ==
    /\ vpc = "ready"
    /\ LET plan == FirePlan(sp_to_measure) IN
       \E k \in FailPoints(plan, vsess) :
        LET trace == Executed(plan, k, hw) IN
        /\ vtrace' = trace
        /\ vexc' = Raised(vsess, k)
        /\ vret' = FireReturn(sp_to_measure, trace, k)
        /\ vsess' = SessAfter(vsess, trace)
    /\ vcall' = [fn |-> "fire", arg |-> FALSE]
    /\ UNCHANGED <<input_dict, hw, vpc, name, sp_to_measure, p_ranges, inits>>

\* VNA.close: nothing is caught
VNA_close ==
    /\ vpc = "ready"
    /\ \E k \in FailPoints(TeardownPlan, vsess) :
        LET trace == Executed(TeardownPlan, k, hw) IN
        /\ vtrace' = trace
        /\ vexc' = Raised(vsess, k)
        /\ vsess' = SessAfter(vsess, trace)
    /\ vcall' = [fn |-> "close", arg |-> FALSE]
    /\ vret' = NoReturn
    /\ UNCHANGED <<input_dict, hw, vpc, name, sp_to_measure, p_ranges, inits>>

\* VNA.__del__: self.resource is the session (nothing sets it to None), and
\* both exception classes the session raises are caught
VNA_del ==
    /\ vpc \in {"ready", "failed"}
    /\ \E k \in FailPoints(TeardownPlan, vsess) :
        LET trace == Executed(TeardownPlan, k, hw) IN
        /\ vtrace' = trace
        /\ vsess' = SessAfter(vsess, trace)
    /\ vexc' = "none"
    /\ vpc' = "dead"
    /\ vcall' = [fn |-> "__del__", arg |-> FALSE]
    /\ vret' = NoReturn
    /\ UNCHANGED <<input_dict, hw, name, sp_to_measure, p_ranges, inits>>

-----------------------------------------------------------------------------
(* class Switches *)

PORT_MIN == 1
PORT_MAX == 24

\* debounce_time = 0.03 seconds, in milliseconds
debounce_time == 30

\* faulty variant: the docstring's "less than 9"
pad_port_number_lt9(port) ==
    IF port < 9 THEN "0" \o str(port) ELSE str(port)

\* Switches.pad_port_number
pad_port_number(port) ==
    IF port <= 9 THEN "0" \o str(port) ELSE str(port)

\* the f-string of set_tran
TranCmd(port) == "tran_" \o pad_port_number(port) \o ";"

\* the f-string of set_refl
ReflCmd(port) == "refl_" \o pad_port_number(port)

\* faulty variant: the upper end of the range test is off by one
InvalidPort_offByOne(port) == port < PORT_MIN \/ port > PORT_MAX + 1

\* the range test of set_tran and set_refl
InvalidPort(port) == port < PORT_MIN \/ port > PORT_MAX

\* faulty variant: the sleep is done before the write
SetPlan_sleepFirst(cmd) == <<SleepOp(debounce_time), W(cmd)>>

\* what set_tran / set_refl do after the range test: write, then sleep
SetPlan(cmd) == <<W(cmd), SleepOp(debounce_time)>>

SwClosePlan == <<CloseOp>>

NoExc == [type |-> "none"]
SessionExc(sess, k) == [type |-> Raised(sess, k)]
SwitchInvalidPortException(attempted_port) ==
    [type |-> "SwitchInvalidPortException", attempted_port |-> attempted_port]

Ports == (PORT_MIN - PortSlack)..(PORT_MAX + PortSlack)

\* a Switches method that runs a plan on the session and catches nothing
SwRun(call, plan) ==
    /\ swpc = "ready"
    /\ \E k \in FailPoints(plan, swsess) :
        LET trace == Executed(plan, k, hw) IN
        /\ swtrace' = trace
        /\ swexc' = SessionExc(swsess, k)
        /\ swsess' = SessAfter(swsess, trace)
    /\ swprev' = swtrace
    /\ swcall' = call
    /\ UNCHANGED swpc

\* a set_tran / set_refl call that raises at the range test
SwReject(call, port) ==
    /\ swpc = "ready"
    /\ swtrace' = <<>>
    /\ swexc' = SwitchInvalidPortException(port)
    /\ swprev' = swtrace
    /\ swcall' = call
    /\ UNCHANGED <<swpc, swsess>>

\* Switches.initialize
Switches_initialize ==
    SwRun([fn |-> "initialize"], <<W("*rst")>>)

\* Switches.set_tran
Switches_set_tran ==
    \E port \in Ports :
        IF InvalidPort(port)
        THEN SwReject([fn |-> "set_tran", port |-> port], port)
        ELSE SwRun([fn |-> "set_tran", port |-> port], SetPlan(TranCmd(port)))

\* Switches.set_refl
Switches_set_refl ==
    \E port \in Ports :
        IF InvalidPort(port)
        THEN SwReject([fn |-> "set_refl", port |-> port], port)
        ELSE SwRun([fn |-> "set_refl", port |-> port], SetPlan(ReflCmd(port)))

\* Switches.close: nothing is caught
Switches_close ==
    SwRun([fn |-> "close"], SwClosePlan)

\* Switches.__del__: self.resource is the session, and both exception classes
\* the session raises are caught
Switches_del ==
    /\ swpc = "ready"
    /\ \E k \in FailPoints(SwClosePlan, swsess) :
        LET trace == Executed(SwClosePlan, k, hw) IN
        /\ swtrace' = trace
        /\ swsess' = SessAfter(swsess, trace)
    /\ swexc' = NoExc
    /\ swprev' = swtrace
    /\ swcall' = [fn |-> "__del__"]
    /\ swpc' = "dead"

-----------------------------------------------------------------------------
(* The program's inputs *)

\* values an S-parameter entry of input_dict can hold
FlagValues == {0, 1, 2}

\* the S-parameter entries of input_dict: any of the four keys may be missing
FlagStores ==
    UNION {[ks -> FlagValues] :
              ks \in SUBSET {s_params[i] : i \in 1..Len(s_params)}}

\* the numeric entries of input_dict
NumStores ==
    {[num_points |-> 3, ifbw |-> 1000, freq_start |-> 1000, freq_stop |-> 2000,
      power |-> 5]}

\* what the analyzer answers to the MIN / MAX queries, as lines of characters
HwTypical ==
    [num_points |-> [min |-> <<"1">>, max |-> <<"1", "6", "0", "0", "1">>],
     ifbw       |-> [min |-> <<"1">>, max |-> <<"4", "0", "0", "0", "0">>],
     freq_start |-> [min |-> <<"1", "0">>, max |-> <<"4", "0", "0">>],
     freq_stop  |-> [min |-> <<"1", "0">>, max |-> <<"4", "0", "0">>],
     power      |-> [min |-> <<"0">>, max |-> <<"2", "0">>]]

VnaNew ==
    /\ vpc = "new"
    /\ vsess = "open"
    /\ name = <<>>
    /\ sp_to_measure = <<>>
    /\ p_ranges = <<>>
    /\ inits = 0
    /\ vcall = [fn |-> "none", arg |-> FALSE]
    /\ vtrace = <<>>
    /\ vexc = "none"
    /\ vret = NoReturn

SwNew ==
    /\ swpc = "ready"
    /\ swsess = "open"
    /\ swcall = [fn |-> "__init__"]
    /\ swtrace = <<>>
    /\ swprev = <<>>
    /\ swexc = NoExc

\* the analyzer controller over every input_dict
Init ==
    /\ input_dict \in {f @@ n : f \in FlagStores, n \in NumStores}
    /\ hw = HwTypical
    /\ VnaNew
    /\ SwNew

Next ==
    \/ VNA_init /\ UNCHANGED swVars
    \/ VNA_initialize /\ UNCHANGED swVars
    \/ VNA_display_on /\ UNCHANGED swVars
    \/ VNA_fire /\ UNCHANGED swVars
    \/ VNA_close /\ UNCHANGED swVars
    \/ VNA_del /\ UNCHANGED swVars

Spec == Init /\ [][Next]_vars

\* the switch controller
InitSw ==
    /\ input_dict \in NumStores
    /\ hw = HwTypical
    /\ VnaNew
    /\ SwNew

NextSw ==
    \/ Switches_initialize /\ UNCHANGED vnaVars
    \/ Switches_set_tran /\ UNCHANGED vnaVars
    \/ Switches_set_refl /\ UNCHANGED vnaVars
    \/ Switches_close /\ UNCHANGED vnaVars
    \/ Switches_del /\ UNCHANGED vnaVars

SpecSw == InitSw /\ [][NextSw]_vars

-----------------------------------------------------------------------------
(* Properties *)

SParamSet == {"S11", "S21", "S12", "S22"}

SwSetCall == swcall.fn \in {"set_tran", "set_refl"}

\* C1: a set_tran / set_refl call with a port below 1 or above 24 raises
\* SwitchInvalidPortException carrying that port, and the call leaves no event
\* on the session: no write and no debounce sleep.
C1_InvalidPortRejected ==
    (SwSetCall /\ (swcall.port < 1 \/ swcall.port > 24)) =>
        /\ swexc.type = "SwitchInvalidPortException"
        /\ swexc.attempted_port = swcall.port
        /\ swtrace = <<>>

C1_Witness ==
    /\ swcall = [fn |-> "set_tran", port |-> 25]
    /\ swexc.type = "SwitchInvalidPortException"
    /\ swprev # <<>>

\* C2: a close() that directly follows a close() which returned normally (so
\* that the session is closed) returns normally as well.
C2_SecondCloseReturns ==
    [][(vcall.fn = "close" /\ vexc = "none" /\ vsess = "closed" /\ VNA_close)
          => vexc' = "none"]_vars

IsSelect(e) ==
    e.op = "write" /\ \E s \in SParamSet :
        e.arg = "CALCULATE1:PARAMETER:SELECT 'parameter_" \o s \o "'"

IsDataQuery(e) == e.op = "query" /\ e.arg = "CALCULATE:DATA? SDATA"

\* C3: in every fire() call the first event is the write of the trigger, the
\* second the operation-complete query; a select write or a data query occurs
\* only after that query has returned; every select write that went through
\* is directly followed by the data query, whose answer is the data of the
\* selected parameter, and every data query directly follows a select write.
C3_FireOrder ==
    vcall.fn = "fire" =>
        /\ Len(vtrace) >= 1
        /\ vtrace[1].op = "write" /\ vtrace[1].arg = "INIT:IMM"
        /\ Len(vtrace) >= 2 => (vtrace[2].op = "query" /\ vtrace[2].arg = "*OPC?")
        /\ \A i \in 1..Len(vtrace) :
            /\ (IsSelect(vtrace[i]) \/ IsDataQuery(vtrace[i])) =>
                  (i > 2 /\ vtrace[2].ok)
            /\ (IsSelect(vtrace[i]) /\ vtrace[i].ok) =>
                  /\ i < Len(vtrace)
                  /\ IsDataQuery(vtrace[i + 1])
                  /\ vtrace[i + 1].ok =>
                        \E s \in SParamSet :
                            /\ vtrace[i].arg =
                                 "CALCULATE1:PARAMETER:SELECT 'parameter_" \o s \o "'"
                            /\ vtrace[i + 1].reply = <<"SDATA", s>>
            /\ IsDataQuery(vtrace[i]) => IsSelect(vtrace[i - 1])

C3_Witness ==
    /\ vcall.fn = "fire"
    /\ vexc = "none"
    /\ Len(vtrace) = 6

\* the S-parameters the store enables: the key is there and its value is truthy
Enabled(d) == {s \in SParamSet : s \in DOMAIN d /\ d[s] # 0}

SelectCount == Cardinality({i \in 1..Len(vtrace) : IsSelect(vtrace[i])})
DataCount == Cardinality({i \in 1..Len(vtrace) : IsDataQuery(vtrace[i])})

\* C4: a fire() that returns after exactly one initialize() has issued as many
\* select / data-query pairs as the store enables S-parameters, one for each,
\* and the keys of the mapping it returns are those S-parameters.
C4_OnePairPerEnabled ==
    (vcall.fn = "fire" /\ vexc = "none" /\ inits = 1) =>
        /\ SelectCount = Cardinality(Enabled(input_dict))
        /\ DataCount = Cardinality(Enabled(input_dict))
        /\ \A s \in Enabled(input_dict) : \E i \in 1..Len(vtrace) :
              vtrace[i].arg = "CALCULATE1:PARAMETER:SELECT 'parameter_" \o s \o "'"
        /\ vret.has /\ DOMAIN vret.val = Enabled(input_dict)

\* C5: once initialize() has completed, no later call (a further initialize()
\* included) changes sp_to_measure.
C5_InitializeIdempotent ==
    [][inits >= 1 => sp_to_measure' = sp_to_measure]_vars

TwoDigits(p) == Digit(p \div 10) \o Digit(p % 10)

\* C6: the command a set_tran(p) / set_refl(p) call with 1 <= p <= 24 puts on
\* the session is tran_ / refl_ followed by the two digits of p and nothing else.
C6_ExactCommand ==
    (SwSetCall /\ swcall.port >= 1 /\ swcall.port <= 24) =>
        /\ Len(swtrace) >= 1
        /\ swtrace[1].op = "write"
        /\ swcall.fn = "set_tran" => swtrace[1].arg = "tran_" \o TwoDigits(swcall.port)
        /\ swcall.fn = "set_refl" => swtrace[1].arg = "refl_" \o TwoDigits(swcall.port)

\* C7: a set_tran / set_refl call that returns has left exactly two events:
\* one write, which went through, and after it one sleep of the whole debounce
\* interval (30 ms); the events of the call before it are all earlier.
C7_WriteThenDebounce ==
    (SwSetCall /\ swexc.type = "none") =>
        /\ Len(swtrace) = 2
        /\ swtrace[1].op = "write" /\ swtrace[1].ok
        /\ swtrace[2].op = "sleep" /\ swtrace[2].arg = "30"

C7_Witness ==
    /\ swcall = [fn |-> "set_refl", port |-> 2]
    /\ swexc.type = "none"
    /\ Len(swprev) = 2
    /\ swprev[1].arg = TranCmd(1)
    /\ swprev[2].op = "sleep"
    /\ swtrace[1].arg = ReflCmd(2)

\* C8: when an operation of a fire() call fails, the call raises, returns
\* nothing, and the failing operation is the last event of the call; no fire()
\* call writes the trigger or asks for completion more than once, or selects
\* more often than sp_to_measure has entries.
C8_FireFailurePropagates ==
    vcall.fn = "fire" =>
        /\ (\E i \in 1..Len(vtrace) : ~vtrace[i].ok) =>
              /\ vexc \in {"VisaIOError", "InvalidSession"}
              /\ ~vret.has
              /\ vret.val = <<>>
              /\ \A i \in 1..(Len(vtrace) - 1) : vtrace[i].ok
        /\ vexc = "none" => \A i \in 1..Len(vtrace) : vtrace[i].ok
        /\ Cardinality({i \in 1..Len(vtrace) : vtrace[i].arg = "INIT:IMM"}) <= 1
        /\ Cardinality({i \in 1..Len(vtrace) : vtrace[i].arg = "*OPC?"}) <= 1
        /\ SelectCount <= Len(sp_to_measure)

C8_Witness ==
    /\ vcall.fn = "fire"
    /\ vexc = "VisaIOError"
    /\ Len(vtrace) = 4
    /\ ~vtrace[4].ok

\* C9: a teardown call (close() or the destructor) never raises.
C9_TeardownSwallows ==
    vcall.fn \in {"close", "__del__"} => vexc = "none"

\* C10: a teardown call (close() or the destructor) first writes *RST; when
\* that write goes through, the session close is the next and last event; the
\* close is never done without the reset having gone through before it.
C10_ResetBeforeClose ==
    vcall.fn \in {"close", "__del__"} =>
        /\ Len(vtrace) >= 1
        /\ vtrace[1].op = "write" /\ vtrace[1].arg = "*RST"
        /\ vtrace[1].ok => (Len(vtrace) = 2 /\ vtrace[2].op = "close")
        /\ \A i \in 1..Len(vtrace) :
              vtrace[i].op = "close" => (i = 2 /\ vtrace[1].ok)

C10_Witness ==
    /\ vcall.fn = "__del__"
    /\ Len(vtrace) = 2
    /\ vtrace[2].op = "close" /\ vtrace[2].ok
    /\ vsess = "closed"


\* C11: after the first initialize() that completes, an S-parameter name is in
\* sp_to_measure exactly when input_dict has that key with a truthy (non-zero)
\* value.
C11_TruthyAcquired ==
    (vcall.fn = "initialize" /\ vexc = "none" /\ inits = 1) =>
        \A s \in SParamSet :
            (\E i \in 1..Len(sp_to_measure) : sp_to_measure[i] = s)
                <=> (s \in DOMAIN input_dict /\ input_dict[s] # 0)


-----------------------------------------------------------------------------
(* VNA.freq_list *)

\* largest frequency tried
MaxFreq == 4
\* largest num_points tried
MaxPoints == 4

\* A float is written as the fraction [num, den] it stands for; the float is
\* that fraction exactly whenever den divides num.

\* faulty variant: the span is divided by num_points
Inc_byPoints(d) ==
    [num |-> d["freq_stop"] - d["freq_start"], den |-> d["num_points"]]

\* line 38: inc = (freq_stop - freq_start) / (num_points - 1)
Inc(d) ==
    [num |-> d["freq_stop"] - d["freq_start"], den |-> d["num_points"] - 1]

\* line 40: freq_start + i * inc
FreqElem(d, i) ==
    [num |-> d["freq_start"] * Inc(d).den + i * Inc(d).num, den |-> Inc(d).den]

\* line 39: len(range(int(num_points)))
RangeLen(n) == IF n < 0 THEN 0 ELSE n

\* lines 37-41: the list li
FreqList(d) == [j \in 1..RangeLen(d["num_points"]) |-> FreqElem(d, j - 1)]

\* VNA.freq_list (a property: no session traffic)
VNA_freq_list ==
    /\ vpc = "ready"
    /\ IF Inc(input_dict).den = 0
       THEN vexc' = "ZeroDivisionError" /\ vret' = NoReturn
       ELSE vexc' = "none" /\ vret' = Returned(FreqList(input_dict))
    /\ vtrace' = <<>>
    /\ vcall' = [fn |-> "freq_list", arg |-> FALSE]
    /\ UNCHANGED <<input_dict, hw, vpc, vsess, name, sp_to_measure, p_ranges, inits>>

FreqValues == 0..MaxFreq
PointValues == -1..MaxPoints

\* the GUI stores a new value in one numeric entry of input_dict
input_dict_set ==
    /\ \E key \in {"freq_start", "freq_stop", "num_points"} :
       \E v \in (IF key = "num_points" THEN PointValues ELSE FreqValues) :
          input_dict' = [input_dict EXCEPT ![key] = v]
    /\ UNCHANGED <<hw, vpc, vsess, name, sp_to_measure, p_ranges, inits,
                   vcall, vtrace, vexc, vret>>

\* the numeric entries of input_dict that freq_list reads, over small ranges
FreqStores ==
    {[num_points |-> n, ifbw |-> 1000, freq_start |-> a, freq_stop |-> b,
      power |-> 5] : n \in PointValues, a \in FreqValues, b \in FreqValues}

InitFreq ==
    /\ input_dict \in FreqStores
    /\ hw = HwTypical
    /\ VnaNew
    /\ SwNew

NextFreq ==
    \/ VNA_init /\ UNCHANGED swVars
    \/ VNA_freq_list /\ UNCHANGED swVars
    \/ input_dict_set /\ UNCHANGED swVars

\* the frequency list over changing settings
SpecFreq == InitFreq /\ [][NextFreq]_vars

\* C12: a freq_list call made while num_points < 2 raises and returns nothing.
C12_RejectsFewPoints ==
    [][(VNA_freq_list /\ input_dict["num_points"] < 2)
          => (vexc' # "none" /\ ~vret'.has)]_vars

\* C13: a freq_list call made while freq_start <= freq_stop, num_points >= 2
\* and num_points - 1 divides freq_stop - freq_start returns num_points
\* elements computed from the settings as they are at the call: element i is
\* freq_start + i * step, the first is freq_start, the last freq_stop, and
\* the elements strictly increase when freq_stop > freq_start and are all
\* equal when freq_stop = freq_start.
C13_FrequencyList ==
    [][LET a == input_dict["freq_start"]
           b == input_dict["freq_stop"]
           n == input_dict["num_points"]
           li == vret'.val
       IN  (VNA_freq_list /\ a <= b /\ n >= 2 /\ (b - a) % (n - 1) = 0) =>
             /\ vexc' = "none" /\ vret'.has
             /\ Len(li) = n
             /\ \A j \in 1..n :
                   li[j].num = li[j].den * (a + (j - 1) * ((b - a) \div (n - 1)))
             /\ li[1].num = li[1].den * a
             /\ li[n].num = li[n].den * b
             /\ \A j \in 1..(n - 1) :
                   /\ li[j].den > 0 /\ li[j].den = li[j + 1].den
                   /\ b > a => li[j].num < li[j + 1].num
                   /\ b = a => li[j].num = li[j + 1].num]_vars

C13_Witness ==
    /\ vcall.fn = "freq_list"
    /\ input_dict["freq_start"] = 0 /\ input_dict["freq_stop"] = 4
    /\ input_dict["num_points"] = 3
    /\ vret.has /\ Len(vret.val) = 3
    /\ vret.val[2] = [num |-> 4, den |-> 2]


MinMaxQueries ==
    {"SENSE1:SWEEP:POINTS? MIN", "SENSE1:SWEEP:POINTS? MAX",
     "SENSE1:BANDWIDTH? MIN", "SENSE1:BANDWIDTH? MAX",
     "SENSE1:FREQUENCY:START? MIN", "SENSE1:FREQUENCY:START? MAX",
     "SENSE1:FREQUENCY:STOP? MIN", "SENSE1:FREQUENCY:STOP? MAX",
     "SOURCE1:POWER1? MIN", "SOURCE1:POWER1? MAX"}

IsMinMax(e) == e.op = "query" /\ e.arg \in MinMaxQueries

\* the write of cmd went through at position i of the last call
WrittenAt(i, cmd) ==
    vtrace[i].op = "write" /\ vtrace[i].arg = cmd /\ vtrace[i].ok

\* the position in the last call of the first write of cmd that went through
\* (0 when there is none)
FirstWrite(cmd) ==
    LET at == {i \in 1..Len(vtrace) : WrittenAt(i, cmd)}
    IN  IF at = {} THEN 0 ELSE CHOOSE i \in at : \A j \in at : i <= j

\* C15: in the constructor the full preset, the definition of the scratch
\* parameter, and the manual-trigger and hold commands have been written, in
\* that order, before any MIN / MAX query is issued; a constructor that
\* returns has issued each of the ten MIN / MAX queries exactly once; no
\* other method issues one, and no method runs before the constructor.
C15_RangeDiscoveryAtConstruction ==
    /\ vcall.fn = "__init__" =>
        /\ \A i \in 1..Len(vtrace) : IsMinMax(vtrace[i]) =>
              /\ 0 < FirstWrite("SYSTEM:FPRESET")
              /\ FirstWrite("SYSTEM:FPRESET")
                   < FirstWrite("CALCULATE1:PARAMETER:DEFINE 'parameter_S21', S21")
              /\ FirstWrite("CALCULATE1:PARAMETER:DEFINE 'parameter_S21', S21")
                   < FirstWrite("INITIATE:CONTINUOUS OFF")
              /\ FirstWrite("INITIATE:CONTINUOUS OFF")
                   < FirstWrite("TRIGGER:SOURCE MANUAL")
              /\ FirstWrite("TRIGGER:SOURCE MANUAL")
                   < FirstWrite("SENSE1:SWEEP:MODE HOLD")
              /\ FirstWrite("SENSE1:SWEEP:MODE HOLD") < i
        /\ vexc = "none" =>
              \A q \in MinMaxQueries :
                  Cardinality({i \in 1..Len(vtrace) :
                                  vtrace[i].op = "query" /\ vtrace[i].arg = q}) = 1
    /\ vcall.fn \notin {"__init__", "none"} =>
        /\ vpc # "new"
        /\ \A i \in 1..Len(vtrace) : ~IsMinMax(vtrace[i])
    /\ vpc = "new" => vcall.fn = "none"

C15_Witness ==
    /\ vcall.fn = "__init__"
    /\ vexc = "none"
    /\ Len(vtrace) = 19
    /\ vpc = "ready"


-----------------------------------------------------------------------------
(* Range discovery over several analyzers *)

\* an analyzer whose every setting has a single value
HwFixed ==
    [n \in {RangeNames[x] : x \in 1..Len(RangeNames)} |->
        [min |-> <<"2", "0", "1">>, max |-> <<"2", "0", "1">>]]

\* an analyzer that answers a MIN above its MAX for two settings
HwInverted ==
    [HwTypical EXCEPT !["ifbw"] = [min |-> <<"9", "0">>, max |-> <<"7">>],
                      !["power"] = [min |-> <<"3">>, max |-> <<"0">>]]

HwProfiles == {HwTypical, HwFixed, HwInverted}

InitHw ==
    /\ input_dict \in {f @@ n : f \in {[S11 |-> 1, S21 |-> 1, S12 |-> 0],
                                       [S11 |-> 0, S22 |-> 2]},
                                n \in NumStores}
    /\ hw \in HwProfiles
    /\ VnaNew
    /\ SwNew

\* the analyzer controller over every analyzer
SpecHw == InitHw /\ [][Next]_vars

\* the number a line of decimal digits stands for
RECURSIVE DecimalValue(_)
DecimalValue(text) ==
    IF text = <<>> THEN 0
    ELSE LET d == CHOOSE v \in 0..9 : Digit(v) = Head(text)
             RECURSIVE Pow10(_)
             Pow10(e) == IF e = 0 THEN 1 ELSE 10 * Pow10(e - 1)
         IN  d * Pow10(Len(text) - 1) + DecimalValue(Tail(text))

\* C16: once the constructor has returned, and after any later initialize(),
\* fire(), display_on() or close(), p_ranges has exactly the five keys
\* num_points, ifbw, freq_start, freq_stop, power, each holding the pair
\* (value of the MIN answer, value of the MAX answer) the analyzer gave, so
\* that min <= max whenever the answers are so ordered.
C16_RangesFixedAtConstruction ==
    vpc = "ready" =>
        /\ DOMAIN p_ranges = {"num_points", "ifbw", "freq_start", "freq_stop", "power"}
        /\ \A n \in DOMAIN p_ranges :
              /\ p_ranges[n] = <<DecimalValue(hw[n].min), DecimalValue(hw[n].max)>>
              /\ DecimalValue(hw[n].min) <= DecimalValue(hw[n].max)
                    => p_ranges[n][1] <= p_ranges[n][2]

C16_Witness ==
    /\ hw = HwInverted
    /\ vcall.fn = "fire"
    /\ inits = 2
    /\ p_ranges["num_points"] = <<1, 16001>>
    /\ p_ranges["ifbw"] = <<90, 7>>


\* C17: the destructor that runs after a close() which returned (the session
\* is closed) issues no write, query or close on the session.
C17_NoTrafficAfterClose ==
    [][(vcall.fn = "close" /\ vexc = "none" /\ vsess = "closed" /\ VNA_del)
          => \A i \in 1..Len(vtrace') :
                vtrace'[i].op \notin {"write", "query", "close"}]_vars


\* the commands of an initialize() call in the order the protocol wants them,
\* for the settings num_points 3, ifbw 1000, freq_start 1000, freq_stop 2000,
\* power 5
SetupOrder ==
    <<"SYSTEM:FPRESET",
      "DISPLAY:VISIBLE OFF",
      "CALCULATE1:PARAMETER:DEFINE 'parameter_S11', S11",
      "CALCULATE1:PARAMETER:DEFINE 'parameter_S12', S12",
      "CALCULATE1:PARAMETER:DEFINE 'parameter_S21', S21",
      "CALCULATE1:PARAMETER:DEFINE 'parameter_S22', S22",
      "INITIATE:CONTINUOUS OFF",
      "TRIGGER:SOURCE MANUAL",
      "SENSE1:SWEEP:MODE HOLD",
      "SENSE1:AVERAGE OFF",
      "SENSE1:SWEEP:TYPE LINEAR",
      "SENSE1:SWEEP:POINTS 3",
      "SENSE1:BANDWIDTH 1000",
      "SENSE1:FREQUENCY:START 1000",
      "SENSE1:FREQUENCY:STOP 2000",
      "SOURCE1:POWER1 5DBM">>

\* the commands the last call wrote, in order
RECURSIVE WritesFrom(_)
WritesFrom(i) ==
    IF i > Len(vtrace) THEN <<>>
    ELSE (IF vtrace[i].op = "write" THEN <<vtrace[i].arg>> ELSE <<>>)
         \o WritesFrom(i + 1)

\* C18: the commands an initialize() call writes are, in order, the preset,
\* display off, the four definitions (S11, S12, S21, S22), manual trigger and
\* hold, averaging off, linear sweep, and then points, bandwidth, frequency
\* start, frequency stop, power: all sixteen when the call returns, the first
\* ones of that list when it raises.
C18_InitializeOrder ==
    (vcall.fn = "initialize"
        /\ input_dict["num_points"] = 3 /\ input_dict["ifbw"] = 1000
        /\ input_dict["freq_start"] = 1000 /\ input_dict["freq_stop"] = 2000
        /\ input_dict["power"] = 5) =>
        LET ws == WritesFrom(1) IN
        /\ Len(ws) <= Len(SetupOrder)
        /\ ws = SubSeq(SetupOrder, 1, Len(ws))
        /\ vexc = "none" => Len(ws) = Len(SetupOrder)

C18_Witness ==
    /\ vcall.fn = "initialize"
    /\ vexc = "none"
    /\ Len(vtrace) = 20
    /\ vtrace[15].arg = "SENSE1:SWEEP:POINTS 3"
    /\ vtrace[19].arg = "SOURCE1:POWER1 5DBM"


-----------------------------------------------------------------------------
(* Teardown of both controllers *)

NextLife ==
    \/ VNA_init /\ UNCHANGED swVars
    \/ VNA_close /\ UNCHANGED swVars
    \/ VNA_del /\ UNCHANGED swVars
    \/ Switches_initialize /\ UNCHANGED vnaVars
    \/ Switches_close /\ UNCHANGED vnaVars
    \/ Switches_del /\ UNCHANGED vnaVars

\* construction and teardown of the two controllers, each on its own session
SpecLife == InitSw /\ [][NextLife]_vars

\* C19: the VNA destructor never raises; it starts with the write of *RST,
\* and when that write fails nothing follows it: the session close is
\* attempted only after a reset that went through.  The Switches destructor
\* never raises and always attempts the session close, as its only event.
C19_DestructorCloseAttempts ==
    /\ vcall.fn = "__del__" =>
        /\ vexc = "none"
        /\ Len(vtrace) >= 1
        /\ vtrace[1].op = "write" /\ vtrace[1].arg = "*RST"
        /\ ~vtrace[1].ok => Len(vtrace) = 1
        /\ (\E i \in 1..Len(vtrace) : vtrace[i].op = "close") <=> vtrace[1].ok
    /\ swcall.fn = "__del__" =>
        /\ swexc.type = "none"
        /\ Len(swtrace) = 1
        /\ swtrace[1].op = "close"

C19_Witness ==
    /\ vcall.fn = "__del__"
    /\ Len(vtrace) = 1 /\ ~vtrace[1].ok
    /\ vsess = "open"
    /\ swcall.fn = "__del__"
    /\ swtrace[1].op = "close" /\ swtrace[1].ok


\* C20: a fire() call leaves sp_to_measure as it is; when it returns, the keys
\* of its mapping are the members of sp_to_measure, all of them among S11,
\* S21, S12, S22; on a VNA on which no initialize() has completed it writes
\* the trigger, asks for completion, issues nothing else and returns the
\* empty mapping.
C20_FireKeysAreAcquisitionSet ==
    [][VNA_fire =>
        /\ sp_to_measure' = sp_to_measure
        /\ vexc' = "none" =>
              /\ vret'.has
              /\ DOMAIN vret'.val = {sp_to_measure[i] : i \in 1..Len(sp_to_measure)}
              /\ DOMAIN vret'.val \subseteq SParamSet
        /\ (inits = 0 /\ vexc' = "none") =>
              /\ Len(vtrace') = 2
              /\ vtrace'[1].op = "write" /\ vtrace'[1].arg = "INIT:IMM"
              /\ vtrace'[2].op = "query" /\ vtrace'[2].arg = "*OPC?"
              /\ vret'.val = <<>>]_vars

C20_Witness ==
    /\ vcall.fn = "fire"
    /\ inits = 0
    /\ vexc = "none"
    /\ Len(vtrace) = 2
    /\ vret = [has |-> TRUE, val |-> <<>>]
    /\ \E s \in DOMAIN input_dict : input_dict[s] = 1

====
